---------------------------- MODULE Spec2Model ----------------------------
(***************************************************************************)
(* A model of namedtensor/core.py: named-dimension bookkeeping over a      *)
(* dense array engine.  A raw tensor is a shape together with its elements *)
(* in row-major order; every element carries the flat position it had at  *)
(* construction, so that a permutation or a reshape of the raw tensor is   *)
(* visible in the data and not only in the shape.                          *)
(***************************************************************************)
EXTENDS Integers, Sequences, FiniteSets

VARIABLES cur, call, res, prev, steps, tensors, outcome

vars == <<cur, call, res, prev, steps, tensors, outcome>>

\* ------------------------------------------------------------------ bounds
\* Largest axis size of a constructed raw tensor.
MaxSize == 3
\* Number of results a caller feeds into a further call.
MaxOps == 1
\* Most new axis names handed to one split call.
MaxSplit == 2
\* Most arrays handed to one assert_match call, and their largest axis size.
MaxTensors == 3
MaxMatchSize == 3

\* The universe of dimension names (single characters).
Names == {"x", "y", "z", "w"}
\* Names of a constructed array, in axis order: a prefix of this list.
InitNames == <<"x", "y", "z">>

\* ----------------------------------------------------------- sequence help
Range(s) == {s[i] : i \in 1..Len(s)}

IsDistinct(s) == \A i, j \in 1..Len(s) : i # j => s[i] # s[j]

\* All duplicate-free sequences over S of length exactly n.
RECURSIVE DistinctSeqs(_, _)
DistinctSeqs(S, n) ==
    IF n = 0 THEN {<<>>}
    ELSE UNION {{Append(s, a) : a \in S \ Range(s)} : s \in DistinctSeqs(S, n - 1)}

DistinctUpTo(S, lo, hi) == UNION {DistinctSeqs(S, n) : n \in lo..hi}

\* functools.reduce(operator.mul, factors, 1)
RECURSIVE prod(_)
prod(factors) ==
    IF factors = <<>> THEN 1 ELSE factors[1] * prod(Tail(factors))

\* [f(s[1])] + [f(s[2])] + ... for a sequence-valued f
RECURSIVE Concat(_)
Concat(ss) == IF ss = <<>> THEN <<>> ELSE ss[1] \o Concat(Tail(ss))

\* ------------------------------------------------------------ array engine
\* The engine is used through dim(), size(), permute(), contiguous(), view()
\* and __deepcopy__().  Axis sizes are at least 1 (non-empty tensors), and a
\* call with no sizes or no indices is the reshape or permutation of a tensor
\* with no axes.  contiguous() changes the memory layout only, which the
\* row-major element list does not record.
\* The raw tensor of n = prod(shape) elements as first constructed.
Iota(shape) == [shape |-> shape, data |-> [p \in 1..prod(shape) |-> p - 1]]

Rank(T) == Len(T.shape)

Numel(T) == Len(T.data)

\* Row-major stride of axis k (1-based) of a shape.
Stride(shape, k) == prod(SubSeq(shape, k + 1, Len(shape)))

\* tensor.permute(*indices) is defined when indices is a permutation of the axes.
PermuteOk(T, indices) ==
    /\ Len(indices) = Rank(T)
    /\ Range(indices) = 0..(Rank(T) - 1)

\* tensor.permute(*indices): output axis j is input axis indices[j] (0-based).
Permute(T, indices) ==
    LET oshape == [j \in 1..Len(indices) |-> T.shape[indices[j] + 1]]
        src(p) == LET RECURSIVE acc(_)
                      acc(j) == IF j > Len(oshape) THEN 0
                                ELSE (((p \div Stride(oshape, j)) % oshape[j])
                                        * Stride(T.shape, indices[j] + 1)) + acc(j + 1)
                  IN acc(1)
    IN [shape |-> oshape,
        data |-> [p \in 1..Numel(T) |-> T.data[src(p - 1) + 1]]]

\* Positions of the "infer" sentinel -1 in a size list.
Inferred(sizes) == {i \in 1..Len(sizes) : sizes[i] = -1}

Known(sizes) == prod([i \in 1..Len(sizes) |-> IF sizes[i] = -1 THEN 1 ELSE sizes[i]])

\* tensor.view(*sizes) is defined when at most one size is inferred and the
\* sizes account for exactly the tensor's elements.
ViewOk(T, sizes) ==
    /\ Cardinality(Inferred(sizes)) <= 1
    /\ IF Inferred(sizes) = {} THEN Known(sizes) = Numel(T)
       ELSE Known(sizes) > 0 /\ Numel(T) % Known(sizes) = 0

\* tensor.view(*sizes): same elements in the same row-major order, new shape.
View(T, sizes) ==
    [shape |-> [i \in 1..Len(sizes) |->
                    IF sizes[i] = -1 THEN Numel(T) \div Known(sizes) ELSE sizes[i]],
     data |-> T.data]

\* ------------------------------------------------------------------ schema
\* _Schema.build: the names must be unique.
SchemaBuildOk(names) == IsDistinct(names)

Has(names, name) == name \in Range(names)

\* _Schema.get(name): the 0-based axis index of a present name.
Get(names, name) == (CHOOSE i \in 1..Len(names) : names[i] = name) - 1

\* _Schema.drop(names): the names kept, in order.
Drop(names, drop) == SelectSeq(names, LAMBDA n : n \notin drop)

\* _Schema.update(mapping): names relabelled per mapping, order unchanged.
Update(names, updates) ==
    [i \in 1..Len(names) |->
        IF names[i] \in DOMAIN updates THEN updates[names[i]] ELSE names[i]]

\* _Schema.ordered_dict(sizes): name -> size, zipped in stored order.
OrderedDict(names, sizes) ==
    [n \in Range(names) |-> sizes[CHOOSE i \in 1..Len(names) : names[i] = n]]

\* ------------------------------------------------------- results of a call
NoArray == [tensor |-> Iota(<<>>), names |-> <<>>, mask |-> 0]

Ok(a) == [ok |-> TRUE, err |-> "", val |-> a, num |-> 0]

Err(kind) == [ok |-> FALSE, err |-> kind, val |-> NoArray, num |-> 0]

\* --------------------------------------------------------------- NamedTensorBase
\* NamedTensorBase.__init__(tensor, names, mask)
New(tensor, names, mask) ==
    IF ~SchemaBuildOk(names) THEN Err("SchemaError")
    ELSE IF Rank(tensor) > 0 /\ Len(tensor.shape) # Len(names) THEN Err("ShapeMismatch")
    ELSE IF Rank(tensor) = 0 /\ Len(names) # 0 THEN Err("ShapeMismatch")
    ELSE Ok([tensor |-> tensor, names |-> names, mask |-> mask])

\* NamedTensorBase.shape
shape(A) == OrderedDict(A.names, A.tensor.shape)

\* NamedTensorBase.vshape
vshape(A) == A.tensor.shape

\* NamedTensorBase.size(dim)
size(A, dim) ==
    IF ~Has(A.names, dim) THEN Err("NameNotFound")
    ELSE [Ok(A) EXCEPT !.num = A.tensor.shape[Get(A.names, dim) + 1]]

\* NamedTensorBase.assert_size(**kwargs); kwargs as its (dim, v) items in order.
RECURSIVE assert_size(_, _)
assert_size(A, items) ==
    IF items = <<>> THEN Ok(A)
    ELSE LET dim == items[1][1]
             v == items[1][2]
         IN IF ~Has(A.names, dim) THEN Err("NameNotFound")
            ELSE IF A.tensor.shape[Get(A.names, dim) + 1] # v THEN Err("SizeMismatch")
            ELSE assert_size(A, Tail(items))

\* NamedTensorBase._new(tensor, drop, add, updates, mask); mask = -1 stands for None.
_new(A, tensor, drop, add, updates, mask) ==
    New(tensor,
        Update(Drop(A.names, drop), updates) \o add,
        IF mask = -1 THEN A.mask ELSE mask)

\* NamedTensorBase.__deepcopy__(memo): the engine's copy holds the same elements.
deepcopy(A) == _new(A, A.tensor, {}, <<>>, <<>>, -1)

\* mask_to with the mask index one past the 1-based position.
mask_to_past(A, name) ==
    IF name = "" THEN _new(A, A.tensor, {}, <<>>, <<>>, 0)
    ELSE IF ~Has(A.names, name) THEN Err("NameNotFound")
    ELSE _new(A, A.tensor, {}, <<>>, <<>>, Get(A.names, name) + 2)

\* mask_to with the 0-based axis index as mask index.
mask_to_zero_based(A, name) ==
    IF name = "" THEN _new(A, A.tensor, {}, <<>>, <<>>, 0)
    ELSE IF ~Has(A.names, name) THEN Err("NameNotFound")
    ELSE _new(A, A.tensor, {}, <<>>, <<>>, Get(A.names, name))

\* NamedTensorBase.mask_to(name)
mask_to(A, name) ==
    IF name = "" THEN _new(A, A.tensor, {}, <<>>, <<>>, 0)
    ELSE IF ~Has(A.names, name) THEN Err("NameNotFound")
    ELSE _new(A, A.tensor, {}, <<>>, <<>>, Get(A.names, name) + 1)

\* transpose with the listed axes put first.
transpose_listed_first(A, dims) ==
    IF \E i \in 1..Len(dims) : ~Has(A.names, dims[i]) THEN Err("NameNotFound")
    ELSE LET to_dims == dims \o SelectSeq(A.names, LAMBDA d : d \notin Range(dims))
             indices == [j \in 1..Len(to_dims) |-> Get(A.names, to_dims[j])]
         IN IF ~PermuteOk(A.tensor, indices) THEN Err("EngineError")
            ELSE New(Permute(A.tensor, indices), to_dims, 0)

\* NamedTensorBase.transpose(*dims)
transpose(A, dims) ==
    IF \E i \in 1..Len(dims) : ~Has(A.names, dims[i]) THEN Err("NameNotFound")
    ELSE LET to_dims == SelectSeq(A.names, LAMBDA d : d \notin Range(dims)) \o dims
             indices == [j \in 1..Len(to_dims) |-> Get(A.names, to_dims[j])]
         IN IF ~PermuteOk(A.tensor, indices) THEN Err("EngineError")
            ELSE New(Permute(A.tensor, indices), to_dims, 0)

\* The loop of _merge with the stacked axes taken in the receiver's order
\* instead of the caller's.
MergeStepAxisOrder(A, names, dim, i) ==
    LET d == A.names[i]
        first == \A k \in 1..(i - 1) : A.names[k] \notin Range(names)
    IN IF d \notin Range(names)
       THEN [s |-> <<d>>, ex |-> <<d>>, view |-> <<shape(A)[d]>>]
       ELSE IF first
       THEN [s |-> SelectSeq(A.names, LAMBDA n : n \in Range(names)), ex |-> <<dim>>,
             view |-> <<prod([k \in 1..Len(names) |-> shape(A)[names[k]]])>>]
       ELSE [s |-> <<>>, ex |-> <<>>, view |-> <<>>]

\* The loop of _merge: what axis i of the receiver appends to s, ex and view.
\* first is TRUE until a participating axis has been met.
MergeStep(A, names, dim, i) ==
    LET d == A.names[i]
        first == \A k \in 1..(i - 1) : A.names[k] \notin Range(names)
    IN IF d \notin Range(names)
       THEN [s |-> <<d>>, ex |-> <<d>>, view |-> <<shape(A)[d]>>]
       ELSE IF first
       THEN [s |-> names, ex |-> <<dim>>,
             view |-> <<prod([k \in 1..Len(names) |-> shape(A)[names[k]]])>>]
       ELSE [s |-> <<>>, ex |-> <<>>, view |-> <<>>]

\* NamedTensorBase._merge(names, dim)
_merge(A, names, dim) ==
    LET step == [i \in 1..Len(A.names) |-> MergeStep(A, names, dim, i)]
        s == Concat([i \in 1..Len(A.names) |-> step[i].s])
        ex == Concat([i \in 1..Len(A.names) |-> step[i].ex])
        view == Concat([i \in 1..Len(A.names) |-> step[i].view])
        t == transpose(A, s)
    IN IF ~t.ok THEN t
       ELSE IF ~ViewOk(t.val.tensor, view) THEN Err("EngineError")
       ELSE New(View(t.val.tensor, view), ex, 0)

\* NamedTensorBase.stack(dims, name)
stack(A, dims, name) ==
    IF \E i \in 1..Len(dims) : ~Has(A.names, dims[i]) THEN Err("NameNotFound")
    ELSE _merge(A, dims, name)

\* size_dict.get(d2, 1): a missing size read as 1 instead of inferred.
DictGetOne(size_dict, d2) == IF d2 \in DOMAIN size_dict THEN size_dict[d2] ELSE 1

\* size_dict.get(d2, -1)
DictGet(size_dict, d2) == IF d2 \in DOMAIN size_dict THEN size_dict[d2] ELSE -1

\* NamedTensorBase._split(dim, names, size_dict)
_split(A, dim, names, size_dict) ==
    LET ex == Concat([i \in 1..Len(A.names) |->
                        IF A.names[i] # dim THEN <<A.names[i]>> ELSE names])
        view == Concat([i \in 1..Len(A.names) |->
                        IF A.names[i] # dim THEN <<shape(A)[A.names[i]]>>
                        ELSE [k \in 1..Len(names) |-> DictGet(size_dict, names[k])]])
    IN IF ~ViewOk(A.tensor, view) THEN Err("EngineError")
       ELSE New(View(A.tensor, view), ex, 0)

\* NamedTensorBase.split(dim, names, **dim_sizes)
split(A, dim, names, dim_sizes) == _split(A, dim, names, dim_sizes)

\* unsqueeze with the new axis put behind the first axis.
unsqueeze_behind(A, dim) ==
    IF Len(A.names) = 0 THEN Err("IndexError")
    ELSE _split(A, A.names[1], <<A.names[1], dim>>, [n \in {dim} |-> 1])

\* NamedTensorBase.unsqueeze(dim)
unsqueeze(A, dim) ==
    IF Len(A.names) = 0 THEN Err("IndexError")
    ELSE _split(A, A.names[1], <<dim, A.names[1]>>, [n \in {dim} |-> 1])

\* NamedTensorBase.rename(dim, name)
rename(A, dim, name) == _split(A, dim, <<name>>, <<>>)

\* "d in dims" for a string dims: d occurs in the text of dims.  dims is kept
\* as its whitespace-separated words; names are single characters, so a name
\* occurs in the text exactly when it is one of the words.
InString(d, words) == \E k \in 1..Len(words) : words[k] = d

\* NamedTensorBase._promote(dims); dims.split() are the words, [1:] drops the first.
_promote(A, words) ==
    LET term == SelectSeq(A.names, LAMBDA d : ~InString(d, words))
                    \o (IF words = <<>> THEN <<>> ELSE Tail(words))
    IN transpose(A, term)

\* _force_order that leaves the names it does not know out of the result.
_force_order_known(A, names) ==
    LET ex == SelectSeq(names, LAMBDA d : Has(A.names, d))
        view == [k \in 1..Len(names) |->
                    IF ~Has(A.names, names[k]) THEN 1 ELSE shape(A)[names[k]]]
        trans == SelectSeq(names, LAMBDA d : Has(A.names, d))
        t == transpose(A, trans)
    IN IF ~t.ok THEN t
       ELSE IF ~ViewOk(t.val.tensor, view) THEN Err("EngineError")
       ELSE New(View(t.val.tensor, view), ex, 0)

\* NamedTensorBase._force_order(names)
_force_order(A, names) ==
    LET ex == names
        view == [k \in 1..Len(names) |->
                    IF ~Has(A.names, names[k]) THEN 1 ELSE shape(A)[names[k]]]
        trans == SelectSeq(names, LAMBDA d : Has(A.names, d))
        t == transpose(A, trans)
    IN IF ~t.ok THEN t
       ELSE IF ~ViewOk(t.val.tensor, view) THEN Err("EngineError")
       ELSE New(View(t.val.tensor, view), ex, 0)

\* The (name, size) pairs assert_match visits: array by array, and within an
\* array in enum_all order.
MatchItems(ts) ==
    Concat([n \in 1..Len(ts) |->
              [i \in 1..Len(ts[n].names) |-> <<ts[n].names[i], vshape(ts[n])[i]>>]])

\* The overriding slip: a later agreeing size clears an earlier conflict.
RECURSIVE MatchLoopLast(_, _, _)
MatchLoopLast(items, sizes, failure) ==
    IF items = <<>> THEN failure
    ELSE LET k == items[1][1]
             v == items[1][2]
         IN IF v = 1 THEN MatchLoopLast(Tail(items), sizes, failure)
            ELSE IF k \in DOMAIN sizes
            THEN MatchLoopLast(Tail(items), sizes, sizes[k] # v)
            ELSE MatchLoopLast(Tail(items),
                               [x \in DOMAIN sizes \cup {k} |->
                                    IF x = k THEN v ELSE sizes[x]],
                               failure)

\* The loops of assert_match over the pairs still to visit, with the sizes
\* dict and the failure flag so far; the value is the final failure flag.
RECURSIVE MatchLoop(_, _, _)
MatchLoop(items, sizes, failure) ==
    IF items = <<>> THEN failure
    ELSE LET k == items[1][1]
             v == items[1][2]
         IN IF v = 1 THEN MatchLoop(Tail(items), sizes, failure)
            ELSE IF k \in DOMAIN sizes
            THEN MatchLoop(Tail(items), sizes, failure \/ sizes[k] # v)
            ELSE MatchLoop(Tail(items),
                           [x \in DOMAIN sizes \cup {k} |->
                                IF x = k THEN v ELSE sizes[x]],
                           failure)

\* assert_match(*tensors): TRUE when the assertion fails.
assert_match(ts) == MatchLoop(MatchItems(ts), <<>>, FALSE)

\* ------------------------------------------------------------ the inputs
AllSeqs == DistinctUpTo(Names, 0, Cardinality(Names))

SomeSeqs == AllSeqs \ {<<>>}

SplitNames == DistinctUpTo(Names, 1, MaxSplit)

\* dim_sizes of a split: explicit sizes for some of the new names.
SizeDicts(names) == UNION {[K -> 1..MaxSize] : K \in SUBSET Range(names)}

\* Arrays as constructed by a caller: NamedTensorBase(tensor, names).
Constructed ==
    {New(Iota(sizes), SubSeq(InitNames, 1, Len(sizes)), 0).val :
        sizes \in UNION {[1..n -> 1..MaxSize] : n \in 0..Len(InitNames)}}

NoCall == [op |-> "none", dim |-> "", name |-> "", dims |-> <<>>, kw |-> <<>>, num |-> 0]

NoPrev == [call |-> NoCall, recv |-> NoArray]

\* ------------------------------------------------------------ the machine
\* cur: the array the caller holds; call, res: the call made on it and what it
\* returned; steps: how many results the caller has gone on with; prev: the
\* call that produced cur, and its receiver.
Init ==
    /\ cur \in Constructed
    /\ call = NoCall
    /\ res = Ok(cur)
    /\ prev = NoPrev
    /\ steps = 0
    /\ tensors = <<>>
    /\ outcome = "none"

Idle == call.op = "none" /\ outcome = "none" /\ tensors = <<>>

Size ==
    /\ Idle
    /\ \E dim \in Names :
        /\ call' = [NoCall EXCEPT !.op = "size", !.dim = dim]
        /\ res' = size(cur, dim)
    /\ UNCHANGED <<cur, prev, steps, tensors, outcome>>

AssertSize ==
    /\ Idle
    /\ \E dim \in Names, v \in 1..MaxSize :
        /\ call' = [NoCall EXCEPT !.op = "assert_size", !.dim = dim, !.num = v]
        /\ res' = assert_size(cur, <<<<dim, v>>>>)
    /\ UNCHANGED <<cur, prev, steps, tensors, outcome>>

DeepCopy ==
    /\ Idle
    /\ call' = [NoCall EXCEPT !.op = "deepcopy"]
    /\ res' = deepcopy(cur)
    /\ UNCHANGED <<cur, prev, steps, tensors, outcome>>

MaskTo ==
    /\ Idle
    /\ \E name \in Names \cup {""} :
        /\ call' = [NoCall EXCEPT !.op = "mask_to", !.name = name]
        /\ res' = mask_to(cur, name)
    /\ UNCHANGED <<cur, prev, steps, tensors, outcome>>

Stack ==
    /\ Idle
    /\ \E dims \in SomeSeqs, name \in Names :
        /\ call' = [NoCall EXCEPT !.op = "stack", !.dims = dims, !.name = name]
        /\ res' = stack(cur, dims, name)
    /\ UNCHANGED <<cur, prev, steps, tensors, outcome>>

Unsqueeze ==
    /\ Idle
    /\ \E dim \in Names :
        /\ call' = [NoCall EXCEPT !.op = "unsqueeze", !.dim = dim]
        /\ res' = unsqueeze(cur, dim)
    /\ UNCHANGED <<cur, prev, steps, tensors, outcome>>

Split ==
    /\ Idle
    /\ \E dim \in Names, names \in SplitNames : \E dim_sizes \in SizeDicts(names) :
        /\ call' = [NoCall EXCEPT !.op = "split", !.dim = dim, !.dims = names,
                                    !.kw = dim_sizes]
        /\ res' = split(cur, dim, names, dim_sizes)
    /\ UNCHANGED <<cur, prev, steps, tensors, outcome>>

Rename ==
    /\ Idle
    /\ \E dim \in Names, name \in Names :
        /\ call' = [NoCall EXCEPT !.op = "rename", !.dim = dim, !.name = name]
        /\ res' = rename(cur, dim, name)
    /\ UNCHANGED <<cur, prev, steps, tensors, outcome>>

Transpose ==
    /\ Idle
    /\ \E dims \in AllSeqs :
        /\ call' = [NoCall EXCEPT !.op = "transpose", !.dims = dims]
        /\ res' = transpose(cur, dims)
    /\ UNCHANGED <<cur, prev, steps, tensors, outcome>>

Promote ==
    /\ Idle
    /\ \E words \in SomeSeqs :
        /\ call' = [NoCall EXCEPT !.op = "_promote", !.dims = words]
        /\ res' = _promote(cur, words)
    /\ UNCHANGED <<cur, prev, steps, tensors, outcome>>

ForceOrder ==
    /\ Idle
    /\ \E names \in AllSeqs :
        /\ call' = [NoCall EXCEPT !.op = "_force_order", !.dims = names]
        /\ res' = _force_order(cur, names)
    /\ UNCHANGED <<cur, prev, steps, tensors, outcome>>

\* The caller goes on with the array a call returned.
Adopt ==
    /\ call.op \notin {"none", "size"}
    /\ res.ok
    /\ steps < MaxOps
    /\ cur' = res.val
    /\ call' = NoCall
    /\ res' = Ok(res.val)
    /\ prev' = NoPrev
    /\ steps' = steps + 1
    /\ UNCHANGED <<tensors, outcome>>

\* The caller goes on with the receiver, which no call changes.
Keep ==
    /\ call.op # "none"
    /\ call' = NoCall
    /\ res' = Ok(cur)
    /\ UNCHANGED <<cur, prev, steps, tensors, outcome>>

Next ==
    \/ Size \/ AssertSize \/ DeepCopy \/ MaskTo \/ Stack \/ Unsqueeze \/ Split
    \/ Rename \/ Transpose \/ Promote \/ ForceOrder \/ Adopt \/ Keep

Spec == Init /\ [][Next]_vars

\* ------------------------------------------------ two calls in a row
\* As Adopt, and the caller remembers the stack or transpose call that
\* produced the array it goes on with, and that call's receiver.
AdoptLaw ==
    /\ call.op \in {"stack", "transpose"}
    /\ res.ok
    /\ steps < MaxOps
    /\ cur' = res.val
    /\ call' = NoCall
    /\ res' = Ok(res.val)
    /\ prev' = [call |-> call, recv |-> cur]
    /\ steps' = steps + 1
    /\ UNCHANGED <<tensors, outcome>>

NextLaw == Stack \/ Split \/ Transpose \/ AdoptLaw \/ Keep

SpecLaw == Init /\ [][NextLaw]_vars

\* ------------------------------------------------ assert_match
\* Arrays handed to assert_match: a scalar, x alone, and y before x, any sizes.
MatchNames == {<<>>, <<"x">>, <<"y", "x">>}

Matchable ==
    UNION {{New(Iota(sizes), names, 0).val :
                sizes \in [1..Len(names) -> 1..MaxMatchSize]} : names \in MatchNames}

InitMatch ==
    /\ cur = NoArray
    /\ call = NoCall
    /\ res = Ok(NoArray)
    /\ prev = NoPrev
    /\ steps = 0
    /\ tensors = <<>>
    /\ outcome = "none"

\* The caller lines up one more argument.
AddTensor ==
    /\ outcome = "none"
    /\ Len(tensors) < MaxTensors
    /\ \E t \in Matchable : tensors' = Append(tensors, t)
    /\ UNCHANGED <<cur, call, res, prev, steps, outcome>>

AssertMatch ==
    /\ outcome = "none"
    /\ outcome' = IF assert_match(tensors) THEN "failed" ELSE "passed"
    /\ UNCHANGED <<cur, call, res, prev, steps, tensors>>

NextMatch == AddTensor \/ AssertMatch

SpecMatch == InitMatch /\ [][NextMatch]_vars

\* ------------------------------------------------ reading an array by name
\* 1-based position of a present name.
Pos(A, n) == Get(A.names, n) + 1

\* The index along each named axis of the element at flat position p.
NamedIndex(A, p) ==
    [n \in Range(A.names) |->
        ((p - 1) \div Stride(A.tensor.shape, Pos(A, n))) % A.tensor.shape[Pos(A, n)]]

\* The flat position of the element at a named index.
RECURSIVE Offset(_, _, _)
Offset(A, f, i) ==
    IF i > Len(A.names) THEN 0
    ELSE f[A.names[i]] * Stride(A.tensor.shape, i) + Offset(A, f, i + 1)

At(A, f) == A.tensor.data[Offset(A, f, 1) + 1]

\* B holds the same names as A, each with A's size, and the same element at
\* every named index: every name is bound to the axis it was bound to in A.
SameBinding(A, B) ==
    /\ Range(B.names) = Range(A.names)
    /\ shape(B) = shape(A)
    /\ \A p \in 1..Numel(A.tensor) : At(B, NamedIndex(A, p)) = A.tensor.data[p]

Present(A, dims) == \A i \in 1..Len(dims) : Has(A.names, dims[i])

Unlisted(A, dims) == SelectSeq(A.names, LAMBDA d : d \notin Range(dims))

\* ------------------------------------------------------------------ C1
WellFormed(A) ==
    /\ Len(A.names) = Rank(A.tensor)
    /\ IsDistinct(A.names)
    /\ Numel(A.tensor) = prod(A.tensor.shape)
    /\ \A i \in 1..Len(A.names) : shape(A)[A.names[i]] = A.tensor.shape[i]
    /\ A.mask \in 0..Rank(A.tensor)

\* C1: every array the caller holds or is handed back by a successful call
\* has as many names as raw axes, pairwise distinct names, each name mapped by
\* shape to the size of the raw axis at its position, and a mask index that is
\* 0 or one of 1..rank.
C1_SchemaMatchesTensor ==
    /\ WellFormed(cur)
    /\ res.ok => WellFormed(res.val)

\* A masked array of rank 3 obtained by two calls in a row.
C1_Witness ==
    /\ steps = 1
    /\ call.op = "mask_to"
    /\ res.ok
    /\ res.val.mask = 3
    /\ cur.names # SubSeq(InitNames, 1, Len(cur.names))

\* ------------------------------------------------------------------ C2
\* Some name has two different sizes, both not 1, in two of the arrays.
Conflict(ts) ==
    \E i, j \in 1..Len(ts) :
        /\ i # j
        /\ \E k \in Range(ts[i].names) \cap Range(ts[j].names) :
            /\ shape(ts[i])[k] # 1
            /\ shape(ts[j])[k] # 1
            /\ shape(ts[i])[k] # shape(ts[j])[k]

\* The orders in which n arguments can be passed.
Orders == [n \in 0..MaxTensors |-> DistinctSeqs(1..n, n)]

Reorderings(ts) == {[i \in 1..Len(ts) |-> ts[perm[i]]] : perm \in Orders[Len(ts)]}

\* C2: assert_match fails exactly when some name has two different sizes,
\* both not 1, in two of its arguments, and passing the same arguments in
\* another order gives the same outcome.
C2_MatchIffNoConflict ==
    outcome # "none" =>
        /\ (outcome = "failed") <=> Conflict(tensors)
        /\ \A ts \in Reorderings(tensors) : assert_match(ts) = assert_match(tensors)

\* Three arrays share x; a size-1 x comes first, the two others disagree.
C2_Witness ==
    /\ outcome = "failed"
    /\ Len(tensors) = 3
    /\ \A i \in 1..3 : Has(tensors[i].names, "x")
    /\ shape(tensors[1])["x"] = 1
    /\ shape(tensors[2])["x"] = 2
    /\ shape(tensors[3])["x"] = 3

\* ------------------------------------------------------------------ C3
Participating(A, dims) == {i \in 1..Len(A.names) : A.names[i] \in Range(dims)}

FirstParticipating(A, dims) ==
    CHOOSE i \in Participating(A, dims) : \A k \in Participating(A, dims) : i <= k

\* The receiver's dims with the participating ones removed and name put where
\* the first participating one was.
StackedDims(A, dims, name) ==
    LET fp == FirstParticipating(A, dims)
    IN SubSeq(A.names, 1, fp - 1) \o <<name>>
          \o Unlisted([A EXCEPT !.names = SubSeq(A.names, fp + 1, Len(A.names))], dims)

\* Row-major index into the stacked axis, the axes taken in the order of dims.
RECURSIVE Flattened(_, _, _, _)
Flattened(A, dims, f, k) ==
    IF k > Len(dims) THEN 0
    ELSE f[dims[k]] * prod([l \in 1..(Len(dims) - k) |-> shape(A)[dims[k + l]]])
            + Flattened(A, dims, f, k + 1)

StackedRight(A, dims, name, r) ==
    /\ r.ok
    /\ r.val.names = StackedDims(A, dims, name)
    /\ shape(r.val)[name] = prod([k \in 1..Len(dims) |-> shape(A)[dims[k]]])
    /\ \A d \in Range(A.names) \ Range(dims) : shape(r.val)[d] = shape(A)[d]
    /\ \A p \in 1..Numel(A.tensor) :
        LET f == NamedIndex(A, p)
            g == [n \in Range(r.val.names) |->
                    IF n = name THEN Flattened(A, dims, f, 1) ELSE f[n]]
        IN At(r.val, g) = A.tensor.data[p]

StackCase == call.op = "stack" /\ Present(cur, call.dims)

\* C3 as stated: stack of present, distinct names gives back, whatever the
\* new name, the array with the stacked layout.
C3_StackAnyNewName ==
    StackCase => StackedRight(cur, call.dims, call.name, res)

\* C3: stack of present, distinct names under a new name that is not the
\* name of a dim left out of the stack gives back the receiver's dims with the
\* stacked ones removed and the new name where the first of them was; the new
\* axis has the product of their sizes, the other names keep size and order,
\* and the stacked axes are flattened in the order the caller listed them.
C3_StackLayout ==
    (StackCase /\ call.name \notin Range(Unlisted(cur, call.dims)))
        => StackedRight(cur, call.dims, call.name, res)

\* The outer two of three axes, listed last-first, stacked under a new name.
C3_Witness ==
    /\ call.op = "stack"
    /\ res.ok
    /\ Len(cur.names) = 3
    /\ call.dims = <<cur.names[3], cur.names[1]>>
    /\ call.name \notin Range(cur.names)
    /\ \A i \in 1..3 : cur.tensor.shape[i] > 1

\* ------------------------------------------------------------------ C4
\* cur came from stack((d1, d2), m) with m not a dim of that call's receiver,
\* and the call on cur is split(m, (d1, d2), d1 = the receiver's size of d1).
StackThenSplit ==
    /\ prev.call.op = "stack"
    /\ Len(prev.call.dims) = 2
    /\ prev.call.name \notin Range(prev.recv.names)
    /\ call.op = "split"
    /\ call.dim = prev.call.name
    /\ call.dims = prev.call.dims
    /\ call.kw = [d \in {prev.call.dims[1]} |-> shape(prev.recv)[d]]

\* C4: stack((d1, d2), m) with a fresh m followed by split(m, (d1, d2), d1=s1)
\* succeeds and gives back the original set of names, each with its original
\* size; the size of d2 is the inferred (s1 * s2) / s1.
C4_StackSplitInverse ==
    StackThenSplit =>
        /\ res.ok
        /\ Range(res.val.names) = Range(prev.recv.names)
        /\ shape(res.val) = shape(prev.recv)
        /\ LET s1 == shape(prev.recv)[call.dims[1]]
               s2 == shape(prev.recv)[call.dims[2]]
           IN shape(res.val)[call.dims[2]] = (s1 * s2) \div s1

\* d1 and d2 are the outer two of three axes, both larger than 1.
C4_Witness ==
    /\ StackThenSplit
    /\ res.ok
    /\ Len(prev.recv.names) = 3
    /\ {Pos(prev.recv, call.dims[1]), Pos(prev.recv, call.dims[2])} = {1, 3}
    /\ shape(prev.recv)[call.dims[1]] > 1
    /\ shape(prev.recv)[call.dims[2]] > 1

\* ------------------------------------------------------------------ C5
\* cur came from a transpose, and the call on cur is transpose(*dims of that
\* transpose's receiver).
TransposeBack ==
    /\ prev.call.op = "transpose"
    /\ call.op = "transpose"
    /\ call.dims = prev.recv.names

\* C5: transpose of present, distinct names gives back the unlisted names in
\* their order followed by the listed ones as listed, every name bound to the
\* axis (size and elements) it was bound to; transposing back to the original
\* order restores the original dims and raw tensor.
C5_TransposePermutes ==
    /\ (call.op = "transpose" /\ Present(cur, call.dims)) =>
            /\ res.ok
            /\ res.val.names = Unlisted(cur, call.dims) \o call.dims
            /\ SameBinding(cur, res.val)
    /\ TransposeBack =>
            /\ res.ok
            /\ res.val.names = prev.recv.names
            /\ res.val.tensor = prev.recv.tensor

\* Three axes of size 2 reordered by a first transpose and transposed back.
C5_Witness ==
    /\ TransposeBack
    /\ res.ok
    /\ Len(cur.names) = 3
    /\ cur.names[1] = prev.recv.names[3]
    /\ cur.tensor.data # prev.recv.tensor.data
    /\ res.val.tensor.data = prev.recv.tensor.data

\* ------------------------------------------------------------------ C6
\* The call names a dimension that the receiver does not have.
AbsentName ==
    \/ call.op \in {"size", "assert_size", "split", "rename"} /\ ~Has(cur.names, call.dim)
    \/ call.op = "mask_to" /\ call.name # "" /\ ~Has(cur.names, call.name)
    \/ call.op \in {"transpose", "stack"} /\ ~Present(cur, call.dims)

\* C6: size, assert_size, mask_to, transpose, stack, split and rename, given a
\* name the receiver does not have, fail with a name-not-found error.
C6_AbsentNameFails ==
    AbsentName => (~res.ok /\ res.err = "NameNotFound")

\* ------------------------------------------------------------------ C7
UnsqueezeCase ==
    /\ call.op = "unsqueeze"
    /\ Len(cur.names) >= 1
    /\ ~Has(cur.names, call.dim)

\* C7: unsqueeze(w) on an array of rank >= 1 that has no dim w gives back dims
\* (w, n1, ..., nk) with sizes (1, s1, ..., sk).
C7_UnsqueezeInFront ==
    UnsqueezeCase =>
        /\ res.ok
        /\ res.val.names = <<call.dim>> \o cur.names
        /\ res.val.tensor.shape = <<1>> \o cur.tensor.shape
        /\ res.val.tensor.data = cur.tensor.data

\* unsqueeze on a two-axis array whose first axis is larger than 1.
C7_Witness ==
    /\ UnsqueezeCase
    /\ res.ok
    /\ Len(cur.names) = 2
    /\ cur.tensor.shape[1] > 1
    /\ cur.tensor.shape[2] > 1

\* ------------------------------------------------------------------ C8
MaskToCase ==
    /\ call.op = "mask_to"
    /\ call.name = "" \/ Has(cur.names, call.name)

\* C8: a step that calls mask_to with "" or a present name leaves the
\* receiver as it was and hands back an array with the receiver's dims and raw
\* tensor whose mask index is 0 for "" and the 1-based position of the name
\* otherwise.
C8_MaskToSetsIndex ==
    [][MaskToCase' =>
        /\ cur' = cur
        /\ res'.ok
        /\ res'.val.names = cur.names
        /\ res'.val.tensor = cur.tensor
        /\ res'.val.mask = IF call'.name = "" THEN 0 ELSE Pos(cur, call'.name)]_vars

\* mask_to moves the mask of an already masked array to its second axis.
C8_Witness ==
    /\ MaskToCase
    /\ res.ok
    /\ cur.mask = 1
    /\ res.val.mask = 2

\* ------------------------------------------------------------------ C9
\* C9: _promote of present names gives back the unlisted dims in their order
\* followed by the listed dims in the listed order.
C9_PromoteListedLast ==
    (call.op = "_promote" /\ Present(cur, call.dims)) =>
        /\ res.ok
        /\ res.val.names = Unlisted(cur, call.dims) \o call.dims

\* ------------------------------------------------------------------ C10
\* C10: _force_order(names), names duplicate-free, either fails or gives back
\* an array of rank len(names) with dims names in that order, every name the
\* receiver had keeping its size and every other name of size 1; it succeeds
\* when names holds every dim of the receiver, and fails when names leaves out
\* a dim of the receiver whose size is larger than 1.
C10_ForceOrder ==
    call.op = "_force_order" =>
        /\ res.ok =>
            /\ Rank(res.val.tensor) = Len(call.dims)
            /\ res.val.names = call.dims
            /\ \A k \in 1..Len(call.dims) :
                    res.val.tensor.shape[k] =
                        IF Has(cur.names, call.dims[k]) THEN shape(cur)[call.dims[k]] ELSE 1
        /\ Range(cur.names) \subseteq Range(call.dims) => res.ok
        /\ (\E d \in Range(cur.names) \ Range(call.dims) : shape(cur)[d] > 1) => ~res.ok

\* Two axes larger than 1 swapped around a new axis of size 1.
C10_Witness ==
    /\ call.op = "_force_order"
    /\ res.ok
    /\ Len(cur.names) = 2
    /\ Len(call.dims) = 3
    /\ call.dims[1] = cur.names[2]
    /\ ~Has(cur.names, call.dims[2])
    /\ call.dims[3] = cur.names[1]
    /\ \A i \in 1..2 : cur.tensor.shape[i] > 1
=============================================================================
